---- MODULE Spec2Model ----
(***************************************************************************)
(* useFileDialog (packages/@mantine/hooks/src/use-file-dialog):            *)
(* a state machine of one hook instance, its hidden <input type=file>      *)
(* elements, the host's render / effect cycle and the platform's dialog.   *)
(***************************************************************************)
EXTENDS Integers, Sequences, FiniteSets, TLC

\* ---------------------------------------------------------------- bounds
\* Number of input elements one instance may create (one per effect setup).
MaxTriggers == 2
\* Longest file collection (initialFiles array, FileList, platform pick).
MaxFiles == 2

\* ---------------------------------------------------------------- values
Handles == {"A", "B"}

\* Ordered sequences of file handles, duplicates allowed, up to MaxFiles.
Seqs == UNION {[1..n -> Handles] : n \in 0..MaxFiles}

\* The `FileList | null` type of the hook's state.
Null == [isNull |-> TRUE, items |-> <<>>]
FileList(s) == [isNull |-> FALSE, items |-> s]

\* A record without fields: the `{}` default of the hook's argument.
EmptyRec == [k \in {} |-> k]

Has(o, k) == k \in DOMAIN o

\* const defaultOptions = { multiple: true, accept: '*' }
defaultOptions == [multiple |-> TRUE, accept |-> "*"]

\* { ...defaultOptions, ...input }: the fields of input win.
MergeOptions(input) == input @@ defaultOptions

\* The part of the merged options that the effect and the callbacks close
\* over; initialFiles is read only by the useState initialiser.
Captured(o) == [k \in (DOMAIN o) \ {"initialFiles"} |-> o[k]]

\* What the reset and open callbacks of a render close over: reset has the
\* dependency options.onChange, open has options.resetOnOpen and reset.
Closure(o) == [k \in (DOMAIN o) \cap {"resetOnOpen", "onChange"} |-> o[k]]

\* Caller-supplied option objects: every field is optional.
InitialFilesChoices ==
    {EmptyRec}
      \cup {[initialFiles |-> [kind |-> "array", items |-> s]] : s \in Seqs}
      \cup {[initialFiles |-> [kind |-> "FileList", items |-> s]] : s \in Seqs}
Inputs ==
    {m @@ r @@ c @@ i :
        m \in {EmptyRec, [multiple |-> FALSE, accept |-> "image/*"]},
        r \in {EmptyRec, [resetOnOpen |-> TRUE]},
        c \in {EmptyRec, [onChange |-> "cb1", onCancel |-> "cb2"]},
        i \in InitialFilesChoices}
\* The option objects of the renders after the first.  useState ignores the
\* initialiser then, so initialFiles is left out or holds one file.
RerenderInputs ==
    {o \in Inputs :
        Has(o, "initialFiles") => o.initialFiles.items \in {<<h>> : h \in Handles}}

\* ------------------------------------------------------- getInitialFilesList
\* for (const file of files) result.items.add(file)
RECURSIVE AddAll(_, _)
AddAll(result, files) ==
    IF files = <<>> THEN result
    ELSE AddAll(Append(result, Head(files)), Tail(files))

\* Called with a document (FileList and DataTransfer are defined).
getInitialFilesList(o) ==
    IF ~Has(o, "initialFiles") THEN Null
    ELSE IF o.initialFiles.kind = "FileList" THEN FileList(o.initialFiles.items)
    ELSE FileList(AddAll(<<>>, o.initialFiles.items))

\* Without a document the globals FileList and DataTransfer do not exist:
\* any given initialFiles reaches `files instanceof FileList` and throws.
InitialFilesThrows(o, doc) == ~doc /\ Has(o, "initialFiles")

\* ------------------------------------------------------------- createInput
\* The element createInput builds when a document exists: not attached, no
\* files chosen, no dialog showing, no listener.
createInput(o) ==
    [multiple  |-> Has(o, "multiple") /\ o.multiple,
     attached  |-> FALSE,
     value     |-> <<>>,
     dialog    |-> FALSE,
     listeners |-> {}]

\* ------------------------------------------------------------------ state
VARIABLES
    hasDocument,   \* typeof document !== 'undefined'
    pc,            \* position of the host's render / effect cycle
    options,       \* merged options of the latest render (closure contents)
    files,         \* the useState cell
    dirty,         \* a state update is scheduled, a re-render is due
    inputRef,      \* inputRef.current: 0 is null, else an index of triggers
    aborted,       \* abortController.current.signal.aborted
    triggers,      \* every input element created so far
    callbacks,     \* the reset / open callbacks the renders have returned
    tornDown,      \* history: elements the effect cleanup has run for
    lastOp,        \* the operation that produced this state
    effects        \* what that operation did, in order

vars == <<hasDocument, pc, options, files, dirty, inputRef, aborted, triggers,
          callbacks, tornDown, lastOp, effects>>

\* One observable step of an operation.
Ev(op, t, cb, arg) == [op |-> op, t |-> t, cb |-> cb, arg |-> arg]

\* What an operation did, by kind.
Calls(effs, op) == SelectSeq(effs, LAMBDA e : e.op = op)

\* The component is in the tree: a state update schedules a re-render.
Live == {"rendered", "mounted", "stale", "torn"}

\* The evaluation of getInitialFilesList(options.initialFiles) in a render,
\* with the argument it was given.
initialFilesCall(o) ==
    IF Has(o, "initialFiles")
    THEN Ev("getInitialFilesList", 0, o.initialFiles.kind, FileList(o.initialFiles.items))
    ELSE Ev("getInitialFilesList", 0, "absent", Null)

\* ------------------------------------------------------------------- Init
\* The first render: lines 80-84.
Init ==
    /\ hasDocument \in BOOLEAN
    /\ \E input \in Inputs :
         /\ options = Captured(MergeOptions(input))
         /\ IF InitialFilesThrows(MergeOptions(input), hasDocument)
            THEN /\ pc = "render-failed"
                 /\ files = Null
                 /\ callbacks = {}
                 /\ effects = <<initialFilesCall(MergeOptions(input)),
                                Ev("throw", 0, "", Null)>>
            ELSE /\ pc = "rendered"
                 /\ files = getInitialFilesList(MergeOptions(input))
                 /\ callbacks = {Closure(MergeOptions(input))}
                 /\ effects = <<initialFilesCall(MergeOptions(input))>>
    /\ dirty = FALSE
    /\ inputRef = 0
    /\ aborted = FALSE
    /\ triggers = <<>>
    /\ tornDown = {}
    /\ lastOp = "render"

\* ------------------------------------------------------------ effect setup
\* Mutant: the listener is registered for every event of the element.
addEventListenerAnyEvent(el, type, listener, signalAborted) ==
    IF signalAborted THEN el
    ELSE [el EXCEPT !.listeners =
             @ \cup {[type |-> ty, opts |-> listener] : ty \in {"change", "cancel"}}]

\* Mutant: the listener is registered without looking at the signal.
addEventListenerNoSignal(el, type, listener, signalAborted) ==
    [el EXCEPT !.listeners = @ \cup {[type |-> type, opts |-> listener]}]

\* addEventListener(type, listener, { signal }): a listener is added only
\* when the signal is not aborted yet.  The listener closes over the
\* options of the render it was created in.
addEventListener(el, type, listener, signalAborted) ==
    IF signalAborted THEN el
    ELSE [el EXCEPT !.listeners = @ \cup {[type |-> type, opts |-> listener]}]

\* The effect body, lines 87-101, when a document exists: the state of the
\* elements and of inputRef after it, and what it did.
effectSetup(opts, trigs, signalAborted) ==
    LET t  == Len(trigs) + 1
        el == [createInput(opts) EXCEPT !.attached = TRUE]
    IN  [inputRef |-> t,
         triggers |-> Append(trigs, addEventListener(el, "change", opts, signalAborted)),
         effects  |-> <<Ev("createInput", t, "", Null),
                        Ev("appendChild", t, "", Null),
                        Ev("addEventListener", t, "", Null)>>]

\* The host runs the effect after the first render and after each cleanup.
\* Without a document createInput returns null and `document.body` throws.
Setup ==
    /\ pc \in {"rendered", "torn"}
    /\ IF hasDocument
       THEN LET r == effectSetup(options, triggers, aborted)
            IN  /\ inputRef' = r.inputRef
                /\ triggers' = r.triggers
                /\ effects' = r.effects
                /\ pc' = "mounted"
       ELSE /\ inputRef' = 0
            /\ triggers' = triggers
            /\ effects' = <<Ev("throw", 0, "", Null)>>
            /\ pc' = "effect-failed"
    /\ lastOp' = "setup"
    /\ UNCHANGED <<hasDocument, callbacks, options, files, dirty, aborted, tornDown>>

\* ---------------------------------------------------------- effect cleanup
\* abort() removes every listener that was registered with the signal.
abort(trigs) == [i \in 1..Len(trigs) |-> [trigs[i] EXCEPT !.listeners = {}]]

\* inputRef.current?.remove()
remove(ref, trigs) ==
    IF ref = 0 THEN trigs ELSE [trigs EXCEPT ![ref].attached = FALSE]

\* Mutant: a cleanup that only removes the element and leaves the signal.
effectCleanupNoAbort(ref, trigs) ==
    [aborted  |-> FALSE,
     triggers |-> remove(ref, trigs),
     effects  |-> IF ref = 0 THEN <<>> ELSE <<Ev("remove", ref, "", Null)>>]

\* Mutant: a cleanup that only aborts and leaves the element in the document.
effectCleanupNoRemove(ref, trigs) ==
    [aborted  |-> TRUE,
     triggers |-> abort(trigs),
     effects  |-> <<Ev("abort", 0, "", Null)>>]

\* Mutant: the element is taken out with removeChild, which throws for an
\* element that is not in the document.
effectCleanupRemoveChild(ref, trigs) ==
    [aborted  |-> TRUE,
     triggers |-> remove(ref, abort(trigs)),
     effects  |-> <<Ev("abort", 0, "", Null)>>
                    \o (IF ref = 0 THEN <<>>
                        ELSE IF trigs[ref].attached
                             THEN <<Ev("remove", ref, "", Null)>>
                             ELSE <<Ev("throw", ref, "", Null)>>)]

\* The function the effect returns, lines 103-106.
effectCleanup(ref, trigs) ==
    [aborted  |-> TRUE,
     triggers |-> remove(ref, abort(trigs)),
     effects  |-> <<Ev("abort", 0, "", Null)>>
                    \o (IF ref = 0 THEN <<>> ELSE <<Ev("remove", ref, "", Null)>>)]

RunCleanup(next) ==
    LET r == effectCleanup(inputRef, triggers)
    IN  /\ aborted' = r.aborted
        /\ triggers' = r.triggers
        /\ effects' = r.effects
        /\ tornDown' = IF inputRef = 0 THEN tornDown ELSE tornDown \cup {inputRef}
        /\ pc' = next
        /\ dirty' = (dirty /\ next \in Live)
        /\ lastOp' = "cleanup"
        /\ UNCHANGED <<hasDocument, callbacks, options, files, inputRef>>

\* The dependency [options] changed: the host runs the previous cleanup
\* before the next setup.
Cleanup == pc = "stale" /\ RunCleanup("torn")

\* Final disposal of the component: the host runs the last cleanup, and a
\* re-render that was scheduled is dropped with the component.
Dispose == pc = "mounted" /\ RunCleanup("disposed")

\* ----------------------------------------------------------------- render
\* Mutant: the effect depends on the contents of the options, so a render
\* with equal options changes nothing.
RenderMemo ==
    /\ pc = "mounted"
    /\ Len(triggers) < MaxTriggers
    /\ \E input \in RerenderInputs :
         /\ options' = Captured(MergeOptions(input))
         /\ callbacks' = callbacks \cup {Closure(MergeOptions(input))}
         /\ effects' = <<initialFilesCall(MergeOptions(input))>>
    /\ pc' = IF options' = options THEN "mounted" ELSE "stale"
    /\ dirty' = FALSE
    /\ lastOp' = "render"
    /\ UNCHANGED <<hasDocument, files, inputRef, aborted, triggers, tornDown>>

\* Mutant: the state cell follows the initialFiles of every render.
RenderResync ==
    /\ pc = "mounted"
    /\ Len(triggers) < MaxTriggers
    /\ \E input \in RerenderInputs :
         /\ options' = Captured(MergeOptions(input))
         /\ callbacks' = callbacks \cup {Closure(MergeOptions(input))}
         /\ effects' = <<initialFilesCall(MergeOptions(input))>>
         /\ files' = getInitialFilesList(MergeOptions(input))
    /\ pc' = "stale"
    /\ dirty' = FALSE
    /\ lastOp' = "render"
    /\ UNCHANGED <<hasDocument, inputRef, aborted, triggers, tornDown>>

\* A later call of useFileDialog (lines 80-84): a new options object, so the
\* effect's dependency changed; useState keeps its cell and ignores the
\* initialiser, which is still evaluated.
Render ==
    /\ pc = "mounted"
    /\ Len(triggers) < MaxTriggers
    /\ \E input \in RerenderInputs :
         /\ options' = Captured(MergeOptions(input))
         /\ callbacks' = callbacks \cup {Closure(MergeOptions(input))}
         /\ effects' = <<initialFilesCall(MergeOptions(input))>>
    /\ pc' = "stale"
    /\ dirty' = FALSE
    /\ lastOp' = "render"
    /\ UNCHANGED <<hasDocument, files, inputRef, aborted, triggers, tornDown>>

\* ------------------------------------------------------------------ reset
\* options.onChange?.(v)
callOnChange(opts, v) ==
    IF Has(opts, "onChange") THEN <<Ev("onChange", 0, opts.onChange, v)>> ELSE <<>>

\* The record of `inputRef.current.value = ''`, with whether it had files.
clearValueCall(ref, trigs) ==
    Ev("clearValue", ref, IF trigs[ref].value = <<>> THEN "" ELSE "files", Null)

\* Mutant: reset that leaves the element's value.
resetKeepsValue(ref, trigs, opts) ==
    [files    |-> Null,
     triggers |-> trigs,
     effects  |-> <<Ev("setFiles", 0, "", Null)>>
                    \o (IF ref = 0 THEN <<>> ELSE callOnChange(opts, Null))]

\* Mutant: reset that clears without telling the caller.
resetSilent(ref, trigs, opts) ==
    [files    |-> Null,
     triggers |-> IF ref = 0 THEN trigs ELSE [trigs EXCEPT ![ref].value = <<>>],
     effects  |-> <<Ev("setFiles", 0, "", Null)>>
                    \o (IF ref = 0 THEN <<>> ELSE <<clearValueCall(ref, trigs)>>)]

\* Mutant: reset that calls onChange outside the test of inputRef.current.
resetUnguarded(ref, trigs, opts) ==
    [files    |-> Null,
     triggers |-> IF ref = 0 THEN trigs ELSE [trigs EXCEPT ![ref].value = <<>>],
     effects  |-> <<Ev("setFiles", 0, "", Null)>>
                    \o (IF ref = 0 THEN <<>> ELSE <<clearValueCall(ref, trigs)>>)
                    \o callOnChange(opts, Null)]

\* The reset callback, lines 109-115: the new state cell, the elements and
\* what it did, from inputRef.current, the elements and the options.
reset(ref, trigs, opts) ==
    [files    |-> Null,
     triggers |-> IF ref = 0 THEN trigs ELSE [trigs EXCEPT ![ref].value = <<>>],
     effects  |-> <<Ev("setFiles", 0, "", Null)>>
                    \o (IF ref = 0 THEN <<>>
                        ELSE <<clearValueCall(ref, trigs)>>
                               \o callOnChange(opts, Null))]

\* The caller invokes a reset callback: the one of the latest render or
\* one it kept from an earlier render, also after the component is gone.
\* The callback uses the onChange of the render that returned it.
Reset ==
    /\ pc # "render-failed"
    /\ \E c \in callbacks :
         LET r == reset(inputRef, triggers, c)
         IN  /\ files' = r.files
             /\ triggers' = r.triggers
             /\ effects' = r.effects
             /\ dirty' = (dirty \/ (pc \in Live /\ files # r.files))
    /\ lastOp' = "reset"
    /\ UNCHANGED <<hasDocument, callbacks, pc, options, inputRef, aborted, tornDown>>

\* ------------------------------------------------------------------- open
\* inputRef.current?.click(): the platform raises a file chooser for the
\* element, also while the chooser of an earlier element is still pending,
\* but only when the call has transient user activation; without it the
\* click is made and nothing is shown.
click(ref, trigs, activation) ==
    IF ref = 0 \/ ~activation THEN trigs
    ELSE [trigs EXCEPT ![ref].dialog = TRUE]

\* The record of a click() call on element ref.
clickCall(ref) == IF ref = 0 THEN <<>> ELSE <<Ev("click", ref, "", Null)>>

\* Mutant: open that clicks first and resets afterwards.
openClickFirst(ref, trigs, opts, cur, activation) ==
    LET r == IF Has(opts, "resetOnOpen") /\ opts.resetOnOpen
             THEN reset(ref, trigs, opts)
             ELSE [files |-> cur, triggers |-> trigs, effects |-> <<>>]
    IN  [files    |-> r.files,
         triggers |-> click(ref, r.triggers, activation),
         effects  |-> clickCall(ref) \o r.effects]

\* The open callback, lines 117-123.
open(ref, trigs, opts, cur, activation) ==
    LET r == IF Has(opts, "resetOnOpen") /\ opts.resetOnOpen
             THEN reset(ref, trigs, opts)
             ELSE [files |-> cur, triggers |-> trigs, effects |-> <<>>]
    IN  [files    |-> r.files,
         triggers |-> click(ref, r.triggers, activation),
         effects  |-> r.effects \o clickCall(ref)]

\* The caller invokes an open callback, of the latest render or of an
\* earlier one, from a user gesture or from other code.  The callback uses
\* the resetOnOpen and the reset of the render that returned it.
Open ==
    /\ pc # "render-failed"
    /\ \E c \in callbacks, activation \in BOOLEAN :
         LET r == open(inputRef, triggers, c, files, activation)
         IN  /\ files' = r.files
             /\ triggers' = r.triggers
             /\ effects' = r.effects
             /\ dirty' = (dirty \/ (pc \in Live /\ files # r.files))
    /\ lastOp' = "open"
    /\ UNCHANGED <<hasDocument, callbacks, pc, options, inputRef, aborted, tornDown>>

\* --------------------------------------------------------------- platform
\* What a user can commit in the dialog of an element: at least one file, no
\* file twice, one file at most unless the element allows several.
Picks(el) ==
    {s \in Seqs : /\ Len(s) >= 1
                  /\ \A i, j \in 1..Len(s) : i # j => s[i] # s[j]
                  /\ el.multiple \/ Len(s) = 1}

\* Mutant: a listener that takes the first file only.
changeListenerFirstFile(listenerOpts, ref, trigs, cur) ==
    IF ref = 0
    THEN [files |-> cur, effects |-> <<>>]
    ELSE [files   |-> FileList(SubSeq(trigs[ref].value, 1, 1)),
          effects |-> <<Ev("setFiles", 0, "", FileList(SubSeq(trigs[ref].value, 1, 1)))>>
                        \o callOnChange(listenerOpts, FileList(SubSeq(trigs[ref].value, 1, 1)))]

\* The change listener, lines 92-97: it reads inputRef.current, not the
\* element the event was raised on.  An input of type file always has a
\* files object, so the test fails only for a null ref.
changeListener(listenerOpts, ref, trigs, cur) ==
    IF ref = 0
    THEN [files |-> cur, effects |-> <<>>]
    ELSE [files   |-> FileList(trigs[ref].value),
          effects |-> <<Ev("setFiles", 0, "", FileList(trigs[ref].value))>>
                        \o callOnChange(listenerOpts, FileList(trigs[ref].value))]

\* The listeners of element el for events of one type.
listenersFor(el, type) == {l \in el.listeners : l.type = type}

\* Dispatch of an event on element t: its listeners for that type run (an
\* element gets at most one, from the one setup that created it, and the
\* only listener function of the hook is the change listener).
dispatch(type, t, trigs, ref, cur) ==
    IF listenersFor(trigs[t], type) = {}
    THEN [files |-> cur, effects |-> <<>>]
    ELSE changeListener((CHOOSE l \in listenersFor(trigs[t], type) : TRUE).opts,
                        ref, trigs, cur)

\* A change event on element t.
dispatchChange(t, trigs, ref, cur) == dispatch("change", t, trigs, ref, cur)

\* Mutant: as if the effect had bound a cancel listener that calls
\* options.onCancel.
dispatchCancelNotifies(t, trigs, ref, cur) ==
    [files   |-> cur,
     effects |-> IF trigs[t].listeners = {} THEN <<>>
                 ELSE LET o == (CHOOSE l \in trigs[t].listeners : TRUE).opts
                      IN  IF Has(o, "onCancel")
                          THEN <<Ev("onCancel", 0, o.onCancel, Null)>>
                          ELSE <<>>]

\* A cancel event on element t: the effect binds no listener for it, and
\* nothing in the hook reads options.onCancel.
dispatchCancel(t, trigs, ref, cur) == dispatch("cancel", t, trigs, ref, cur)

\* The user commits a pick in the dialog that click() opened on element t.
\* The platform raises a change notification when the choice differs from
\* the element's committed value.  A native event is a task of its own: the
\* host has finished any render and commit that was due (none is due once
\* the component is gone).
Pick ==
    /\ (pc = "mounted" /\ ~dirty) \/ pc = "disposed"
    /\ \E t \in 1..Len(triggers) : \E s \in Picks(triggers[t]) :
         /\ triggers[t].dialog
         /\ LET closed == [triggers EXCEPT ![t].dialog = FALSE]
                after  == [closed EXCEPT ![t].value = s]
                r      == dispatchChange(t, after, inputRef, files)
            IN  IF s = triggers[t].value
                THEN /\ triggers' = closed
                     /\ effects' = <<>>
                     /\ UNCHANGED <<files, dirty>>
                ELSE /\ triggers' = after
                     /\ effects' = <<Ev("change", t, "", FileList(s))>> \o r.effects
                     /\ files' = r.files
                     /\ dirty' = (dirty \/ (pc \in Live /\ Len(r.effects) > 0))
    /\ lastOp' = "pick"
    /\ UNCHANGED <<hasDocument, callbacks, pc, options, inputRef, aborted, tornDown>>

\* The user dismisses the dialog of element t without a pick.  For an
\* element that holds no files the platform raises a cancel event.  For an
\* element that holds files it either does the same and keeps the files, or
\* it empties the element and raises a change event with the empty list.
Dismiss ==
    /\ (pc = "mounted" /\ ~dirty) \/ pc = "disposed"
    /\ \E t \in 1..Len(triggers) :
         /\ triggers[t].dialog
         /\ \E emptied \in (IF triggers[t].value = <<>> THEN {FALSE} ELSE BOOLEAN) :
              LET closed == [triggers EXCEPT ![t].dialog = FALSE]
                  after  == [closed EXCEPT ![t].value = <<>>]
                  r      == IF emptied
                            THEN dispatchChange(t, after, inputRef, files)
                            ELSE dispatchCancel(t, closed, inputRef, files)
              IN  /\ triggers' = IF emptied THEN after ELSE closed
                  /\ effects' = (IF emptied
                                 THEN <<Ev("change", t, "", FileList(<<>>))>>
                                 ELSE <<Ev("cancel", t, "", Null)>>) \o r.effects
                  /\ files' = r.files
                  /\ dirty' = (dirty \/ (pc \in Live /\ Len(Calls(r.effects, "setFiles")) > 0))
    /\ lastOp' = "dismiss"
    /\ UNCHANGED <<hasDocument, callbacks, pc, options, inputRef, aborted, tornDown>>

\* ------------------------------------------------------------------- Next
Next ==
    \/ Setup
    \/ Cleanup
    \/ Dispose
    \/ Render
    \/ Reset
    \/ Open
    \/ Pick
    \/ Dismiss

Spec == Init /\ [][Next]_vars

\* ================================================================ claims
\* The calls of onChange an operation made.
OnChangeCalls(effs) == Calls(effs, "onChange")
ResetOps == {"setFiles", "clearValue", "onChange"}

\* This state was produced by a change notification raised on element t.
ChangeRaisedOn(t) ==
    /\ lastOp = "pick"
    /\ Len(effects) >= 1
    /\ effects[1].op = "change"
    /\ effects[1].t = t

\* C1: a change notification raised on an element after the cleanup of that
\* element has run neither changes the selection nor invokes onChange.
C1_NoUpdateAfterTeardown ==
    [][\A t \in tornDown :
          ChangeRaisedOn(t)' =>
             /\ files' = files
             /\ Len(effects') = 1]_vars

\* C1 witness: a change notification was raised on a torn-down element.
C1_Witness ==
    \E t \in tornDown : ChangeRaisedOn(t) /\ ~effects[1].arg.isNull

\* C2 (as claimed): whatever happened before, when the controller is
\* mounted and the platform raises a change notification on the live,
\* attached trigger reporting F after an open(), the selection is F and
\* onChange (when supplied) was invoked exactly once, with F.
C2_PickUpdatesSelection ==
    (/\ pc = "mounted"
     /\ inputRef # 0
     /\ ChangeRaisedOn(inputRef)
     /\ triggers[inputRef].attached)
    => /\ files = effects[1].arg
       /\ Has(options, "onChange") =>
            /\ Len(OnChangeCalls(effects)) = 1
            /\ OnChangeCalls(effects)[1].arg = effects[1].arg

\* C3 (as claimed): every element attached to the document has exactly one
\* change listener bound.
C3_OneSubscriptionPerAttachedTrigger ==
    \A t \in 1..Len(triggers) :
       triggers[t].attached => Cardinality(triggers[t].listeners) = 1

\* C4: at most one element of the instance is attached to the document.
C4_AtMostOneAttached ==
    Cardinality({t \in 1..Len(triggers) : triggers[t].attached}) <= 1

\* C4 witness: a second element was created and only it is attached.
C4_Witness ==
    /\ Len(triggers) >= 2
    /\ triggers[2].attached
    /\ ~triggers[1].attached

\* C5 (as claimed): after reset() called while inputRef holds an element
\* (attached or not), the selection is null and the onChange of the
\* configuration was invoked by that call exactly once, with null.
C5_ResetNotifiesLatest ==
    (lastOp = "reset" /\ inputRef # 0)
    => /\ files = Null
       /\ triggers[inputRef].value = <<>>
       /\ Has(options, "onChange") =>
            /\ Len(OnChangeCalls(effects)) = 1
            /\ OnChangeCalls(effects)[1].arg = Null
            /\ OnChangeCalls(effects)[1].cb = options.onChange

\* C5 (amended): a reset callback called while inputRef holds an element
\* sets the selection to null, clears the element and invokes the onChange
\* of the render that returned the callback exactly once, with null; a
\* callback of a render without onChange invokes nothing.
C5_ResetNotifiesOnce ==
    [][(lastOp' = "reset" /\ inputRef # 0) =>
         /\ files' = Null
         /\ triggers'[inputRef].value = <<>>
         /\ \E c \in callbacks :
              IF Has(c, "onChange")
              THEN /\ Len(OnChangeCalls(effects')) = 1
                   /\ OnChangeCalls(effects')[1].arg = Null
                   /\ OnChangeCalls(effects')[1].cb = c.onChange
              ELSE Len(OnChangeCalls(effects')) = 0]_vars

\* C5 witness: reset() ran with a live element, a callback and a selection
\* that was not null before (the state update is scheduled).
C5_Witness ==
    /\ lastOp = "reset"
    /\ inputRef # 0
    /\ triggers[inputRef].attached
    /\ Has(options, "onChange")
    /\ Len(OnChangeCalls(effects)) = 1
    /\ dirty

\* C6: reset() when no element was ever created sets the selection to null
\* and does not invoke onChange.
C6_ResetWithoutTrigger ==
    (lastOp = "reset" /\ Len(triggers) = 0)
    => /\ files = Null
       /\ Len(OnChangeCalls(effects)) = 0

\* C6 witness: reset() ran before any element existed, with a callback
\* supplied and a selection that was not null before.
C6_Witness ==
    /\ lastOp = "reset"
    /\ Len(triggers) = 0
    /\ Has(options, "onChange")
    /\ dirty

\* C7 (as claimed): open() performs the whole reset (selection null, value
\* cleared, onChange(null)) before the click when the configuration has
\* resetOnOpen, and no reset at all when it has not.
C7_OpenFollowsLatestOptions ==
    [][lastOp' = "open" =>
         /\ inputRef # 0 =>
              /\ Len(Calls(effects', "click")) = 1
              /\ effects'[Len(effects')].op = "click"
              /\ \A u \in 1..Len(triggers) :
                    /\ triggers[u].dialog => triggers'[u].dialog
                    /\ u # inputRef => triggers'[u].dialog = triggers[u].dialog
         /\ IF Has(options, "resetOnOpen") /\ options.resetOnOpen
            THEN /\ files' = Null
                 /\ effects'[1].op = "setFiles"
                 /\ inputRef # 0 =>
                      /\ triggers'[inputRef].value = <<>>
                      /\ Has(options, "onChange") =>
                           /\ Len(OnChangeCalls(effects')) = 1
                           /\ OnChangeCalls(effects')[1].arg = Null
                 /\ \A i, j \in 1..Len(effects') :
                      (effects'[i].op \in ResetOps /\ effects'[j].op = "click")
                         => i < j
            ELSE /\ files' = files
                 /\ \A i \in 1..Len(effects') : effects'[i].op \notin ResetOps
                 /\ \A t \in 1..Len(triggers) :
                      triggers'[t].value = triggers[t].value]_vars

\* C7 (amended): an open callback of a render with resetOnOpen performs the
\* whole reset (selection null, value cleared, onChange(null) of that
\* render) before the click; an open callback of a render without
\* resetOnOpen performs no reset at all.
C7_OpenResetsBeforeActivation ==
    [][lastOp' = "open" =>
         /\ inputRef # 0 =>
              /\ Len(Calls(effects', "click")) = 1
              /\ effects'[Len(effects')].op = "click"
              /\ \A u \in 1..Len(triggers) :
                    /\ triggers[u].dialog => triggers'[u].dialog
                    /\ u # inputRef => triggers'[u].dialog = triggers[u].dialog
         /\ \E c \in callbacks :
              IF Has(c, "resetOnOpen") /\ c.resetOnOpen
              THEN /\ files' = Null
                   /\ effects'[1].op = "setFiles"
                   /\ inputRef # 0 =>
                        /\ triggers'[inputRef].value = <<>>
                        /\ IF Has(c, "onChange")
                           THEN /\ Len(OnChangeCalls(effects')) = 1
                                /\ OnChangeCalls(effects')[1].arg = Null
                                /\ OnChangeCalls(effects')[1].cb = c.onChange
                           ELSE Len(OnChangeCalls(effects')) = 0
                   /\ \A i, j \in 1..Len(effects') :
                        (effects'[i].op \in ResetOps /\ effects'[j].op = "click")
                           => i < j
              ELSE /\ files' = files
                   /\ \A i \in 1..Len(effects') : effects'[i].op \notin ResetOps
                   /\ \A t \in 1..Len(triggers) :
                        triggers'[t].value = triggers[t].value]_vars

\* C7 witness: open() ran with resetOnOpen, a callback and an element.
C7_Witness ==
    /\ lastOp = "open"
    /\ Has(options, "resetOnOpen")
    /\ effects[1].op = "setFiles"
    /\ Len(OnChangeCalls(effects)) = 1
    /\ Len(Calls(effects, "click")) = 1
    /\ triggers[inputRef].dialog

\* C8 (as claimed): reset() called after the cleanup has run does not
\* invoke onChange.
C8_ResetAfterUnmountIsNoOp ==
    (lastOp = "reset" /\ pc \in {"torn", "disposed"})
    => Len(OnChangeCalls(effects)) = 0

\* C9 (as claimed): open() called after the cleanup has run, or before any
\* setup has completed, activates no element.
C9_OpenWithoutMountIsNoOp ==
    (lastOp = "open" /\ pc \in {"rendered", "torn", "disposed"})
    => /\ Len(Calls(effects, "click")) = 0
       /\ \A t \in 1..Len(triggers) : ~triggers[t].dialog

\* C10 (as claimed): the selection is null or equal to the collection most
\* recently reported by a change notification; in particular it is so right
\* after a change notification.
C10_SelectionIsLastReported ==
    [][\A t \in 1..Len(triggers) :
          ChangeRaisedOn(t)' => (files' = Null \/ files' = effects'[1].arg)]_vars

\* C10 (amended): the selection starts as the normalised initialFiles and is
\* only ever replaced as a whole: by null, or by the collection of a change
\* notification that met a bound listener; and every such notification
\* replaces it.
C10_SelectionReplacedWhole ==
    [][/\ files' # files =>
            \/ files' = Null /\ lastOp' \in {"reset", "open"}
            \/ \E t \in 1..Len(triggers) :
                  /\ ChangeRaisedOn(t)'
                  /\ triggers[t].listeners # {}
                  /\ files' = effects'[1].arg
       /\ \A t \in 1..Len(triggers) :
            (ChangeRaisedOn(t)' /\ triggers[t].listeners # {})
               => files' = effects'[1].arg]_vars

\* C10 witness: a two-file pick was delivered and is the selection.
C10_Witness ==
    /\ lastOp = "pick"
    /\ Len(OnChangeCalls(effects)) = 1
    /\ effects[1].op = "change"
    /\ files = effects[1].arg
    /\ Len(files.items) = 2

\* The calls an operation made that the caller or the host can observe as a
\* callback or an error.
Callbacks(effs) ==
    SelectSeq(effs, LAMBDA e : e.op \in {"onChange", "onCancel", "throw"})

\* C11: the previous subscription is cancelled and the previous element is
\* removed before the next element is created, attached and subscribed, and
\* the same cleanup runs on disposal.
C11_TeardownBeforeSetup ==
    /\ pc \in {"torn", "disposed"} =>
         /\ aborted
         /\ \A u \in 1..Len(triggers) :
              /\ ~triggers[u].attached
              /\ triggers[u].listeners = {}
              /\ u \in tornDown
    /\ (lastOp = "setup" /\ pc = "mounted") =>
         \A u \in 1..(Len(triggers) - 1) :
            /\ ~triggers[u].attached
            /\ triggers[u].listeners = {}
            /\ u \in tornDown
    /\ lastOp = "cleanup" =>
         /\ Len(effects) = 2
         /\ effects[1].op = "abort"
         /\ effects[2].op = "remove"
         /\ effects[2].t = inputRef

\* C11 witness: a second element was set up after the cleanup of the first.
C11_Witness ==
    /\ lastOp = "setup"
    /\ Len(triggers) >= 2
    /\ 1 \in tornDown
    /\ inputRef = Len(triggers)

\* C12: a dialog dismissed without a pick leaves the selection as it was
\* and invokes neither onChange nor onCancel: the one event the platform
\* raises, cancel or the change of an emptied element, meets no handler.
\* Only the dismissed element can lose its files.
C12_DismissChangesNothing ==
    [][lastOp' = "dismiss" =>
         /\ files' = files
         /\ dirty' = dirty
         /\ Len(effects') = 1
         /\ effects'[1].op \in {"cancel", "change"}
         /\ Len(Callbacks(effects')) = 0
         /\ \A t \in 1..Len(triggers) :
              \/ triggers'[t].value = triggers[t].value
              \/ /\ triggers'[t].value = <<>>
                 /\ effects'[1] = Ev("change", t, "", FileList(<<>>))]_vars

\* C12 witness: a dialog was dismissed on the live element, which has a
\* change listener, with both callbacks supplied and a selection held.
C12_Witness ==
    /\ lastOp = "dismiss"
    /\ inputRef # 0
    /\ effects[1].t = inputRef
    /\ triggers[inputRef].listeners # {}
    /\ Has(options, "onCancel")
    /\ ~files.isNull

\* C13 (as claimed): without a document no element is created and setup,
\* cleanup, open and reset raise no error.
C13_NoDocumentIsNoOp ==
    (~hasDocument /\ lastOp \in {"setup", "cleanup", "open", "reset"})
    => /\ Len(triggers) = 0
       /\ Len(Calls(effects, "throw")) = 0
       /\ pc # "effect-failed"

\* C14 (as claimed): for every array of initialFiles the selection of the
\* first render holds the same files in the same order, duplicates
\* included; for absent initialFiles it is null.
C14_InitialFilesKeepOrder ==
    (lastOp = "render" /\ pc \in {"rendered", "render-failed"}) =>
       /\ effects[1].op = "getInitialFilesList"
       /\ effects[1].cb = "array" =>
            /\ ~files.isNull
            /\ Len(files.items) = Len(effects[1].arg.items)
            /\ \A i \in 1..Len(files.items) : files.items[i] = effects[1].arg.items[i]
            /\ Len(Calls(effects, "throw")) = 0
       /\ effects[1].cb = "absent" => files = Null

\* C15: no operation ever invokes onCancel.
C15_OnCancelNeverInvoked ==
    Len(Calls(effects, "onCancel")) = 0

\* C15 witness: a dialog was dismissed on an element with a bound listener
\* whose options hold an onCancel callback.
C15_Witness ==
    /\ lastOp = "dismiss"
    /\ \E l \in triggers[effects[1].t].listeners : Has(l.opts, "onCancel")

\* C16: reset() with an element in inputRef empties its committed value, and
\* any pick on an element whose committed value is empty raises a change
\* notification that carries the pick.
C16_ResetRearmsChange ==
    [][/\ (lastOp' = "reset" /\ inputRef # 0) =>
            triggers'[inputRef].value = <<>>
       /\ \A t \in 1..Len(triggers) :
            (/\ lastOp' = "pick"
             /\ triggers[t].dialog
             /\ ~triggers'[t].dialog
             /\ triggers[t].value = <<>>)
            => /\ ChangeRaisedOn(t)'
               /\ effects'[1].arg = FileList(triggers'[t].value)
               /\ triggers'[t].value # <<>>]_vars

\* C16 witness: reset() emptied an element that held a committed pick.
C16_Witness ==
    /\ lastOp = "reset"
    /\ inputRef # 0
    /\ Len(Calls(effects, "clearValue")) = 1
    /\ Calls(effects, "clearValue")[1].cb = "files"
    /\ triggers[inputRef].value = <<>>

\* C17: the cleanup exists only once a setup has put an element in
\* inputRef; run once more after it has run, when the element is detached
\* and no subscription is left, it changes no state, invokes no callback
\* and raises no error.
C17_CleanupIdempotent ==
    /\ pc \in {"mounted", "stale", "torn", "disposed"} => inputRef # 0
    /\ pc \in {"torn", "disposed"} =>
         /\ effectCleanup(inputRef, triggers).triggers = triggers
         /\ effectCleanup(inputRef, triggers).aborted = aborted
         /\ Len(Callbacks(effectCleanup(inputRef, triggers).effects)) = 0
         /\ ~triggers[inputRef].attached
         /\ \A u \in 1..Len(triggers) : triggers[u].listeners = {}

\* C17 witness: the cleanup has run for an element that inputRef still holds.
C17_Witness ==
    /\ pc = "disposed"
    /\ inputRef # 0
    /\ inputRef \in tornDown
    /\ aborted

\* C18: once the cleanup has run, the signal stays aborted, no notification
\* on any element changes the selection or invokes onChange, and only
\* reset() (directly or through open()) changes the selection.
C18_DeadAfterFirstTeardown ==
    [][aborted =>
         /\ aborted'
         /\ lastOp' \in {"pick", "dismiss"} =>
              /\ files' = files
              /\ Len(OnChangeCalls(effects')) = 0
         /\ files' # files =>
              /\ lastOp' \in {"reset", "open"}
              /\ files' = Null]_vars

\* C18 witness: after a cleanup, a change notification was raised on the
\* new, attached element.
C18_Witness ==
    /\ aborted
    /\ pc = "mounted"
    /\ inputRef # 0
    /\ ChangeRaisedOn(inputRef)
    /\ triggers[inputRef].attached
    /\ Has(options, "onChange")

\* C19: every re-render, whatever its options, makes the cleanup of the
\* current element due; from there the effect cycle only goes on through
\* that cleanup, and then only through the setup of a new element.
C19_RenderRebuilds ==
    [][/\ (lastOp' = "render" /\ pc = "mounted") => pc' = "stale"
       /\ (pc = "stale" /\ pc' # pc) =>
            /\ pc' = "torn"
            /\ inputRef \in tornDown'
            /\ ~triggers'[inputRef].attached
            /\ triggers'[inputRef].listeners = {}
       /\ (pc = "torn" /\ pc' # pc) =>
            /\ pc' = "mounted"
            /\ Len(triggers') = Len(triggers) + 1
            /\ inputRef' = Len(triggers')
            /\ triggers'[inputRef'].attached]_vars

\* C19 witness: a pick was taken over, the re-render it caused has replaced
\* the element, and the options are the defaults again.
C19_Witness ==
    /\ pc = "mounted"
    /\ Len(triggers) = 2
    /\ 1 \in tornDown
    /\ ~files.isNull
    /\ files.items = triggers[1].value
    /\ Len(files.items) >= 1
    /\ options = defaultOptions

\* C20: render, cleanup and setup leave the selection as it is, also when
\* the render is given other initialFiles.
C20_RebuildKeepsSelection ==
    [][lastOp' \in {"render", "cleanup", "setup"} => files' = files]_vars

\* C20 witness: a re-render was given an array of initialFiles that differs
\* from the selection held.
C20_Witness ==
    /\ lastOp = "render"
    /\ pc = "stale"
    /\ effects[1].cb = "array"
    /\ ~files.isNull
    /\ effects[1].arg # files

====
